---- MODULE Spec2Model ----
(***************************************************************************)
(* A model of the stp258-standard pallet (src/src/lib.rs): the Ledger      *)
(* Dispatch layer (impl Stp258Currency* for Pallet), the Asset Adapter     *)
(* (Stp258AssetAdapter), the SerpMarket settlement (impl SerpMarket for    *)
(* Pallet), the elastic-supply entry serp_elast and merge_account.         *)
(*                                                                         *)
(* The pallet owns no ledger of its own.  Every balance lives in one of    *)
(* two collaborators that are not part of this repository:                 *)
(*   nat : the embedded single-currency primitive behind T::Stp258Native   *)
(*         (frame_support's Currency / LockableCurrency /                  *)
(*         ReservableCurrency, adapted by Stp258AssetAdapter);             *)
(*   tok : the multi-currency backend T::Stp258Currency, one ledger per    *)
(*         currency id.                                                    *)
(* Both are modelled at their interface (the Store* operators below).      *)
(***************************************************************************)
EXTENDS Integers, Sequences, FiniteSets, TLC

\* ------------------------------------------------------------------ bounds

\* Largest total issuance of one currency that is explored.
MaxBalance == 2

\* The top of the unsigned Balance type (2^w - 1 for a w-bit Balance).
BalanceTop == 7

\* Number of public operations in one explored run.
MaxSteps == 2

\* Block numbers 1..MaxBlock are offered to the per-block entry points.
MaxBlock == 2

\* The per-block entry points run at most MaxTicks times in a behaviour.
MaxTicks == 1

\* ----------------------------------------------------------- configuration

\* T::GetStp258NativeId: the id routed to the native asset.
GetStp258NativeId == 0

CurrencyIds == {0, 1}

Accounts == {"alice", "bob"}

LockIds == {"lock1"}

\* Balance: the unsigned type.  Amount: the signed type, one step wider than
\* Balance, so that a magnitude exists that try_into::<Balance>() refuses.
Balance == 0..BalanceTop

MaxAmount == BalanceTop + 1

Amount == (0 - MaxAmount)..MaxAmount

BalanceStatus == {"Free", "Reserved"}

Max(a, b) == IF a >= b THEN a ELSE b

Min(a, b) == IF a <= b THEN a ELSE b

Abs(x) == IF x < 0 THEN 0 - x ELSE x

\* ------------------------------------------------------------------ state

VARIABLES
  nat,           \* the native primitive's ledger
  tok,           \* the backend's ledgers, one per currency id
  events,        \* the pallet's event log, oldest first
  last,          \* the call made by the latest step, with its result
  steps,         \* the number of steps taken
  serpNativeId,  \* T::GetSerpNativeId, fixed at construction
  ticks          \* the number of runs of a per-block entry point

vars == <<nat, tok, events, last, steps, serpNativeId, ticks>>

\* --------------------------------------------- the collaborators' ledgers

\* One single-currency ledger.  A lock amount of 0 means "no such lock".
EmptyStore ==
  [free     |-> [a \in Accounts |-> 0],
   reserved |-> [a \in Accounts |-> 0],
   locks    |-> [a \in Accounts |-> [l \in LockIds |-> 0]],
   issuance |-> 0]

\* A result of a fallible primitive: res is "Ok" or the error, val the
\* returned Balance (0 when the primitive returns unit), st the ledger after.
Ret(res, val, st) == [res |-> res, val |-> val, st |-> st]

SetMax(S) == IF S = {} THEN 0 ELSE CHOOSE m \in S : \A x \in S : x <= m

\* The enforced hold: the maximum over the active locks.
Frozen(st, who) == SetMax({st.locks[who][l] : l \in LockIds})

StoreTotalBalance(st, who) == st.free[who] + st.reserved[who]

\* Currency::ensure_can_withdraw(who, amount, reasons, new_balance)
StoreEnsureCanWithdraw(st, who, amount, new_balance) ==
  IF amount = 0 THEN "Ok"
  ELSE IF new_balance < Frozen(st, who) THEN "LiquidityRestrictions"
  ELSE "Ok"

\* Currency::transfer(from, to, value, AllowDeath)
StoreTransfer(st, from, to, value) ==
  IF value = 0 \/ from = to THEN Ret("Ok", 0, st)
  ELSE IF st.free[from] < value THEN Ret("InsufficientBalance", 0, st)
  ELSE IF StoreEnsureCanWithdraw(st, from, value, st.free[from] - value) # "Ok"
    THEN Ret("LiquidityRestrictions", 0, st)
  ELSE Ret("Ok", 0,
           [st EXCEPT !.free[from] = @ - value, !.free[to] = @ + value])

\* Currency::deposit_creating(who, value), the imbalance dropped
StoreDeposit(st, who, value) ==
  Ret("Ok", 0, [st EXCEPT !.free[who] = @ + value, !.issuance = @ + value])

\* Currency::withdraw(who, value, reasons, AllowDeath), the imbalance dropped
StoreWithdraw(st, who, value) ==
  IF value = 0 THEN Ret("Ok", 0, st)
  ELSE IF st.free[who] < value THEN Ret("InsufficientBalance", 0, st)
  ELSE IF StoreEnsureCanWithdraw(st, who, value, st.free[who] - value) # "Ok"
    THEN Ret("LiquidityRestrictions", 0, st)
  ELSE Ret("Ok", 0, [st EXCEPT !.free[who] = @ - value, !.issuance = @ - value])

\* Currency::can_slash(who, value)
StoreCanSlash(st, who, value) == value = 0 \/ st.free[who] >= value

\* Currency::slash(who, value): best effort, free first and then reserved;
\* val is the part that could not be slashed.  The imbalance is dropped.
StoreSlash(st, who, value) ==
  LET fromFree == Min(st.free[who], value)
      fromRes  == Min(st.reserved[who], value - fromFree)
  IN Ret("Ok", value - fromFree - fromRes,
         [st EXCEPT !.free[who] = @ - fromFree,
                    !.reserved[who] = @ - fromRes,
                    !.issuance = @ - (fromFree + fromRes)])

\* LockableCurrency::set_lock(id, who, amount, reasons)
StoreSetLock(st, id, who, amount) ==
  IF amount = 0 THEN Ret("Ok", 0, st)
  ELSE Ret("Ok", 0, [st EXCEPT !.locks[who][id] = amount])

\* LockableCurrency::extend_lock(id, who, amount, reasons)
StoreExtendLock(st, id, who, amount) ==
  IF amount = 0 THEN Ret("Ok", 0, st)
  ELSE Ret("Ok", 0, [st EXCEPT !.locks[who][id] = Max(@, amount)])

\* LockableCurrency::remove_lock(id, who)
StoreRemoveLock(st, id, who) ==
  Ret("Ok", 0, [st EXCEPT !.locks[who][id] = 0])

\* ReservableCurrency::can_reserve(who, value)
StoreCanReserve(st, who, value) ==
  \/ value = 0
  \/ /\ st.free[who] >= value
     /\ StoreEnsureCanWithdraw(st, who, value, st.free[who] - value) = "Ok"

\* ReservableCurrency::reserve(who, value)
StoreReserve(st, who, value) ==
  IF value = 0 THEN Ret("Ok", 0, st)
  ELSE IF st.free[who] < value THEN Ret("InsufficientBalance", 0, st)
  ELSE IF StoreEnsureCanWithdraw(st, who, value, st.free[who] - value) # "Ok"
    THEN Ret("LiquidityRestrictions", 0, st)
  ELSE Ret("Ok", 0,
           [st EXCEPT !.free[who] = @ - value, !.reserved[who] = @ + value])

\* ReservableCurrency::unreserve(who, value): val is what was not unreserved
StoreUnreserve(st, who, value) ==
  LET actual == Min(st.reserved[who], value)
  IN Ret("Ok", value - actual,
         [st EXCEPT !.reserved[who] = @ - actual, !.free[who] = @ + actual])

\* ReservableCurrency::slash_reserved(who, value), the imbalance dropped
StoreSlashReserved(st, who, value) ==
  LET actual == Min(st.reserved[who], value)
  IN Ret("Ok", value - actual,
         [st EXCEPT !.reserved[who] = @ - actual, !.issuance = @ - actual])

\* ReservableCurrency::repatriate_reserved(slashed, beneficiary, value, status)
StoreRepatriateReserved(st, slashed, beneficiary, value, status) ==
  LET actual == Min(st.reserved[slashed], value)
  IN IF value = 0 THEN Ret("Ok", 0, st)
     ELSE IF slashed = beneficiary
       THEN IF status = "Free" THEN StoreUnreserve(st, slashed, value)
            ELSE Ret("Ok", value - actual, st)
     ELSE IF status = "Free"
       THEN Ret("Ok", value - actual,
                [st EXCEPT !.reserved[slashed] = @ - actual,
                           !.free[beneficiary] = @ + actual])
     ELSE Ret("Ok", value - actual,
              [st EXCEPT !.reserved[slashed] = @ - actual,
                         !.reserved[beneficiary] = @ + actual])

\* ------------------------------------------------- Asset Adapter (native)
\* Stp258AssetAdapter<T, Currency, Amount, Moment>: every operator takes the
\* primitive's ledger and returns Ret(res, val, ledger after).

\* Currency::minimum_balance() of the embedded primitive.
MinimumBalance == 1

Adapter_minimum_balance == MinimumBalance

Adapter_total_issuance(st) == st.issuance

Adapter_total_balance(st, who) == StoreTotalBalance(st, who)

Adapter_free_balance(st, who) == st.free[who]

\* An ensure_can_withdraw whose subtraction saturates at zero.
Adapter_ensure_can_withdraw_saturating(st, who, amount) ==
  StoreEnsureCanWithdraw(st, who, amount,
                         Max(Adapter_free_balance(st, who) - amount, 0))

Adapter_ensure_can_withdraw(st, who, amount) ==
  IF Adapter_free_balance(st, who) < amount THEN "BalanceTooLow"
  ELSE StoreEnsureCanWithdraw(st, who, amount,
                              Adapter_free_balance(st, who) - amount)

Adapter_transfer(st, from, to, amount) == StoreTransfer(st, from, to, amount)

Adapter_deposit(st, who, amount) ==
  Ret("Ok", 0, StoreDeposit(st, who, amount).st)

Adapter_withdraw(st, who, amount) ==
  LET r == StoreWithdraw(st, who, amount) IN Ret(r.res, 0, r.st)

Adapter_can_slash(st, who, amount) == StoreCanSlash(st, who, amount)

Adapter_slash(st, who, amount) == StoreSlash(st, who, amount)

\* by_amount.abs().try_into(): the magnitude as a Balance, or the failure.
AmountIntoBalance(by_amount) ==
  IF Abs(by_amount) \in Balance THEN [ok |-> TRUE, balance |-> Abs(by_amount)]
  ELSE [ok |-> FALSE, balance |-> 0]

\* A conversion that saturates at the top of Balance instead of failing.
Adapter_update_balance_saturating(st, who, by_amount) ==
  LET by_balance == Min(Abs(by_amount), BalanceTop)
  IN IF by_amount > 0 THEN Adapter_deposit(st, who, by_balance)
     ELSE Adapter_withdraw(st, who, by_balance)

Adapter_update_balance(st, who, by_amount) ==
  LET by_balance == AmountIntoBalance(by_amount)
  IN IF ~by_balance.ok THEN Ret("AmountIntoBalanceFailed", 0, st)
     ELSE IF by_amount > 0 THEN Adapter_deposit(st, who, by_balance.balance)
     ELSE Adapter_withdraw(st, who, by_balance.balance)

Adapter_set_lock(st, lock_id, who, amount) ==
  Ret("Ok", 0, StoreSetLock(st, lock_id, who, amount).st)

Adapter_extend_lock(st, lock_id, who, amount) ==
  Ret("Ok", 0, StoreExtendLock(st, lock_id, who, amount).st)

Adapter_remove_lock(st, lock_id, who) ==
  Ret("Ok", 0, StoreRemoveLock(st, lock_id, who).st)

Adapter_can_reserve(st, who, value) == StoreCanReserve(st, who, value)

Adapter_slash_reserved(st, who, value) == StoreSlashReserved(st, who, value)

Adapter_reserved_balance(st, who) == st.reserved[who]

Adapter_reserve(st, who, value) == StoreReserve(st, who, value)

Adapter_unreserve(st, who, value) == StoreUnreserve(st, who, value)

Adapter_repatriate_reserved(st, slashed, beneficiary, value, status) ==
  StoreRepatriateReserved(st, slashed, beneficiary, value, status)

\* ------------------------------------------- the multi-currency backend
\* T::Stp258Currency: every operator takes tok, the function from currency
\* id to ledger, and returns Ret(res, val, tok after).

In(tk, c, r) == Ret(r.res, r.val, [tk EXCEPT ![c] = r.st])

\* base_unit(currency_id) of the backend: its configured peg per currency.
Backend_base_unit(c) == 2

Backend_minimum_balance(c) == 1

Backend_ensure_can_withdraw(tk, c, who, amount) ==
  IF amount = 0 THEN "Ok"
  ELSE IF tk[c].free[who] < amount THEN "InsufficientBalance"
  ELSE StoreEnsureCanWithdraw(tk[c], who, amount, tk[c].free[who] - amount)

Backend_transfer(tk, c, from, to, amount) ==
  In(tk, c, StoreTransfer(tk[c], from, to, amount))

Backend_deposit(tk, c, who, amount) ==
  In(tk, c, StoreDeposit(tk[c], who, amount))

Backend_withdraw(tk, c, who, amount) ==
  In(tk, c, StoreWithdraw(tk[c], who, amount))

Backend_slash(tk, c, who, amount) == In(tk, c, StoreSlash(tk[c], who, amount))

Backend_update_balance(tk, c, who, by_amount) ==
  LET by_balance == AmountIntoBalance(by_amount)
  IN IF by_amount = 0 THEN Ret("Ok", 0, tk)
     ELSE IF ~by_balance.ok THEN Ret("AmountIntoBalanceFailed", 0, tk)
     ELSE IF by_amount > 0 THEN Backend_deposit(tk, c, who, by_balance.balance)
     ELSE Backend_withdraw(tk, c, who, by_balance.balance)

Backend_set_lock(tk, lock_id, c, who, amount) ==
  In(tk, c, StoreSetLock(tk[c], lock_id, who, amount))

Backend_extend_lock(tk, lock_id, c, who, amount) ==
  In(tk, c, StoreExtendLock(tk[c], lock_id, who, amount))

Backend_remove_lock(tk, lock_id, c, who) ==
  In(tk, c, StoreRemoveLock(tk[c], lock_id, who))

Backend_slash_reserved(tk, c, who, value) ==
  In(tk, c, StoreSlashReserved(tk[c], who, value))

Backend_reserve(tk, c, who, value) ==
  In(tk, c, StoreReserve(tk[c], who, value))

Backend_unreserve(tk, c, who, value) ==
  In(tk, c, StoreUnreserve(tk[c], who, value))

Backend_repatriate_reserved(tk, c, slashed, beneficiary, value, status) ==
  In(tk, c, StoreRepatriateReserved(tk[c], slashed, beneficiary, value, status))

\* The backend's own merge primitive: for every currency it holds, refuse
\* while source has a reserved balance, else move all of source's free
\* balance to dest.  It is transactional: a failure leaves tok as it was.
Backend_merge_account(tk, source, dest) ==
  LET moved == [c \in CurrencyIds |->
                  StoreTransfer(tk[c], source, dest, tk[c].free[source])]
  IN IF \E c \in CurrencyIds : tk[c].reserved[source] # 0
       THEN Ret("StillHasActiveReserved", 0, tk)
     ELSE IF \E c \in CurrencyIds : moved[c].res # "Ok"
       THEN Ret((CHOOSE e \in {moved[c].res : c \in CurrencyIds} : e # "Ok"),
                0, tk)
     ELSE Ret("Ok", 0, [c \in CurrencyIds |-> moved[c].st])

\* The backend's mint primitive: create expand_by of the stable currency,
\* settled through serpers.
Backend_expand_supply(tk, native_id, stable_id, expand_by, quoted, serpers) ==
  Backend_deposit(tk, stable_id, serpers, expand_by)

\* The backend's burn primitive: destroy contract_by of the stable currency,
\* taken from serpers.
Backend_contract_supply(tk, native_id, stable_id, contract_by, quoted, serpers) ==
  Backend_withdraw(tk, stable_id, serpers, contract_by)

\* ------------------------------------------------------ Ledger Dispatch
\* impl Stp258Currency / Extended / Lockable / Reservable for Pallet<T>.
\* A world w is [nat, tok, events]; every operator returns
\* [res, val, w]: the result, the returned value and the world after.

PRet(res, val, w) == [res |-> res, val |-> val, w |-> w]

\* The call went to T::Stp258Native.
ViaNative(w, r) == PRet(r.res, r.val, [w EXCEPT !.nat = r.st])

\* The call went to T::Stp258Currency.
ViaBackend(w, r) == PRet(r.res, r.val, [w EXCEPT !.tok = r.st])

\* `...?; Self::deposit_event(ev); Ok(())`
ThenDeposit_event(pr, ev) ==
  IF pr.res = "Ok" THEN [pr EXCEPT !.w.events = Append(@, ev)] ELSE pr

Pallet_base_unit_backend_only(w, currency_id) ==
  Backend_base_unit(currency_id)

Pallet_base_unit(w, currency_id) ==
  IF currency_id = GetStp258NativeId THEN Adapter_minimum_balance
  ELSE Backend_base_unit(currency_id)

Pallet_minimum_balance(w, currency_id) ==
  IF currency_id = GetStp258NativeId THEN Adapter_minimum_balance
  ELSE Backend_minimum_balance(currency_id)

Pallet_total_issuance(w, currency_id) ==
  IF currency_id = GetStp258NativeId THEN Adapter_total_issuance(w.nat)
  ELSE w.tok[currency_id].issuance

Pallet_total_balance(w, currency_id, who) ==
  IF currency_id = GetStp258NativeId THEN Adapter_total_balance(w.nat, who)
  ELSE StoreTotalBalance(w.tok[currency_id], who)

Pallet_free_balance(w, currency_id, who) ==
  IF currency_id = GetStp258NativeId THEN Adapter_free_balance(w.nat, who)
  ELSE w.tok[currency_id].free[who]

Pallet_ensure_can_withdraw(w, currency_id, who, amount) ==
  IF currency_id = GetStp258NativeId
    THEN Adapter_ensure_can_withdraw(w.nat, who, amount)
  ELSE Backend_ensure_can_withdraw(w.tok, currency_id, who, amount)

Pallet_transfer_noevent(w, currency_id, from, to, amount) ==
  IF amount = 0 \/ from = to THEN PRet("Ok", 0, w)
  ELSE IF currency_id = GetStp258NativeId
         THEN ViaNative(w, Adapter_transfer(w.nat, from, to, amount))
       ELSE ViaBackend(w, Backend_transfer(w.tok, currency_id, from, to, amount))

Pallet_transfer_noguard(w, currency_id, from, to, amount) ==
  ThenDeposit_event(
    IF currency_id = GetStp258NativeId
      THEN ViaNative(w, Adapter_transfer(w.nat, from, to, amount))
    ELSE ViaBackend(w, Backend_transfer(w.tok, currency_id, from, to, amount)),
    <<"Transferred", currency_id, from, to, amount>>)

Pallet_transfer(w, currency_id, from, to, amount) ==
  IF amount = 0 \/ from = to THEN PRet("Ok", 0, w)
  ELSE ThenDeposit_event(
         IF currency_id = GetStp258NativeId
           THEN ViaNative(w, Adapter_transfer(w.nat, from, to, amount))
         ELSE ViaBackend(w, Backend_transfer(w.tok, currency_id, from, to, amount)),
         <<"Transferred", currency_id, from, to, amount>>)

Pallet_deposit_noguard(w, currency_id, who, amount) ==
  ThenDeposit_event(
    IF currency_id = GetStp258NativeId
      THEN ViaNative(w, Adapter_deposit(w.nat, who, amount))
    ELSE ViaBackend(w, Backend_deposit(w.tok, currency_id, who, amount)),
    <<"Deposited", currency_id, who, amount>>)

Pallet_deposit(w, currency_id, who, amount) ==
  IF amount = 0 THEN PRet("Ok", 0, w)
  ELSE ThenDeposit_event(
         IF currency_id = GetStp258NativeId
           THEN ViaNative(w, Adapter_deposit(w.nat, who, amount))
         ELSE ViaBackend(w, Backend_deposit(w.tok, currency_id, who, amount)),
         <<"Deposited", currency_id, who, amount>>)

Pallet_withdraw_event_unconditional(w, currency_id, who, amount) ==
  IF amount = 0 THEN PRet("Ok", 0, w)
  ELSE LET pr == IF currency_id = GetStp258NativeId
                   THEN ViaNative(w, Adapter_withdraw(w.nat, who, amount))
                 ELSE ViaBackend(w, Backend_withdraw(w.tok, currency_id, who, amount))
       IN [pr EXCEPT !.w.events =
                       Append(@, <<"Withdrawn", currency_id, who, amount>>)]

Pallet_withdraw(w, currency_id, who, amount) ==
  IF amount = 0 THEN PRet("Ok", 0, w)
  ELSE ThenDeposit_event(
         IF currency_id = GetStp258NativeId
           THEN ViaNative(w, Adapter_withdraw(w.nat, who, amount))
         ELSE ViaBackend(w, Backend_withdraw(w.tok, currency_id, who, amount)),
         <<"Withdrawn", currency_id, who, amount>>)

Pallet_can_slash(w, currency_id, who, amount) ==
  IF currency_id = GetStp258NativeId THEN Adapter_can_slash(w.nat, who, amount)
  ELSE StoreCanSlash(w.tok[currency_id], who, amount)

Pallet_slash(w, currency_id, who, amount) ==
  IF currency_id = GetStp258NativeId
    THEN ViaNative(w, Adapter_slash(w.nat, who, amount))
  ELSE ViaBackend(w, Backend_slash(w.tok, currency_id, who, amount))

Pallet_update_balance(w, currency_id, who, by_amount) ==
  ThenDeposit_event(
    IF currency_id = GetStp258NativeId
      THEN ViaNative(w, Adapter_update_balance(w.nat, who, by_amount))
    ELSE ViaBackend(w, Backend_update_balance(w.tok, currency_id, who, by_amount)),
    <<"BalanceUpdated", currency_id, who, by_amount>>)

Pallet_set_lock(w, lock_id, currency_id, who, amount) ==
  IF currency_id = GetStp258NativeId
    THEN ViaNative(w, Adapter_set_lock(w.nat, lock_id, who, amount))
  ELSE ViaBackend(w, Backend_set_lock(w.tok, lock_id, currency_id, who, amount))

Pallet_extend_lock(w, lock_id, currency_id, who, amount) ==
  IF currency_id = GetStp258NativeId
    THEN ViaNative(w, Adapter_extend_lock(w.nat, lock_id, who, amount))
  ELSE ViaBackend(w, Backend_extend_lock(w.tok, lock_id, currency_id, who, amount))

Pallet_remove_lock(w, lock_id, currency_id, who) ==
  IF currency_id = GetStp258NativeId
    THEN ViaNative(w, Adapter_remove_lock(w.nat, lock_id, who))
  ELSE ViaBackend(w, Backend_remove_lock(w.tok, lock_id, currency_id, who))

Pallet_can_reserve(w, currency_id, who, value) ==
  IF currency_id = GetStp258NativeId THEN Adapter_can_reserve(w.nat, who, value)
  ELSE StoreCanReserve(w.tok[currency_id], who, value)

Pallet_slash_reserved(w, currency_id, who, value) ==
  IF currency_id = GetStp258NativeId
    THEN ViaNative(w, Adapter_slash_reserved(w.nat, who, value))
  ELSE ViaBackend(w, Backend_slash_reserved(w.tok, currency_id, who, value))

Pallet_reserved_balance(w, currency_id, who) ==
  IF currency_id = GetStp258NativeId THEN Adapter_reserved_balance(w.nat, who)
  ELSE w.tok[currency_id].reserved[who]

Pallet_reserve_misrouted(w, currency_id, who, value) ==
  IF currency_id # GetStp258NativeId
    THEN ViaNative(w, Adapter_reserve(w.nat, who, value))
  ELSE ViaBackend(w, Backend_reserve(w.tok, currency_id, who, value))

Pallet_reserve(w, currency_id, who, value) ==
  IF currency_id = GetStp258NativeId
    THEN ViaNative(w, Adapter_reserve(w.nat, who, value))
  ELSE ViaBackend(w, Backend_reserve(w.tok, currency_id, who, value))

\* An unreserve that burns the reserved amount instead of freeing it.
Pallet_unreserve_as_slash(w, currency_id, who, value) ==
  IF currency_id = GetStp258NativeId
    THEN ViaNative(w, Adapter_slash_reserved(w.nat, who, value))
  ELSE ViaBackend(w, Backend_slash_reserved(w.tok, currency_id, who, value))

Pallet_unreserve(w, currency_id, who, value) ==
  IF currency_id = GetStp258NativeId
    THEN ViaNative(w, Adapter_unreserve(w.nat, who, value))
  ELSE ViaBackend(w, Backend_unreserve(w.tok, currency_id, who, value))

Pallet_repatriate_reserved(w, currency_id, slashed, beneficiary, value, status) ==
  IF currency_id = GetStp258NativeId
    THEN ViaNative(w, Adapter_repatriate_reserved(w.nat, slashed, beneficiary,
                                                  value, status))
  ELSE ViaBackend(w, Backend_repatriate_reserved(w.tok, currency_id, slashed,
                                                 beneficiary, value, status))

\* ------------------------------------------------- SerpMarket settlement
\* impl SerpMarket for Pallet<T>

GetSerpNativeId == serpNativeId

\* An expand_supply that reports only what it minted.
Pallet_expand_supply_event_gated(w, native_currency_id, stable_currency_id, expand_by, pay_by_quoted, serpers) ==
  IF expand_by = 0 \/ stable_currency_id = native_currency_id
    THEN PRet("Ok", 0, w)
  ELSE IF native_currency_id = GetSerpNativeId
    THEN ThenDeposit_event(
           ViaBackend(w, Backend_expand_supply(w.tok, native_currency_id,
                              stable_currency_id, expand_by, pay_by_quoted, serpers)),
           <<"SerpedUpSupply", stable_currency_id, expand_by>>)
  ELSE PRet("Ok", 0, w)

Pallet_expand_supply(w, native_currency_id, stable_currency_id, expand_by, pay_by_quoted, serpers) ==
  IF expand_by = 0 \/ stable_currency_id = native_currency_id
    THEN PRet("Ok", 0, w)
  ELSE ThenDeposit_event(
         IF native_currency_id = GetSerpNativeId
           THEN ViaBackend(w, Backend_expand_supply(w.tok, native_currency_id,
                              stable_currency_id, expand_by, pay_by_quoted, serpers))
         ELSE PRet("Ok", 0, w),
         <<"SerpedUpSupply", stable_currency_id, expand_by>>)

\* A contract_supply without the early return.
Pallet_contract_supply_noguard(w, native_currency_id, stable_currency_id, contract_by, pay_by_quoted, serpers) ==
  ThenDeposit_event(
    IF native_currency_id = GetSerpNativeId
      THEN ViaBackend(w, Backend_contract_supply(w.tok, native_currency_id,
                         stable_currency_id, contract_by, pay_by_quoted, serpers))
    ELSE PRet("Ok", 0, w),
    <<"SerpedDownSupply", stable_currency_id, contract_by>>)

Pallet_contract_supply(w, native_currency_id, stable_currency_id, contract_by, pay_by_quoted, serpers) ==
  IF contract_by = 0 \/ stable_currency_id = native_currency_id
    THEN PRet("Ok", 0, w)
  ELSE ThenDeposit_event(
         IF native_currency_id = GetSerpNativeId
           THEN ViaBackend(w, Backend_contract_supply(w.tok, native_currency_id,
                              stable_currency_id, contract_by, pay_by_quoted, serpers))
         ELSE PRet("Ok", 0, w),
         <<"SerpedDownSupply", stable_currency_id, contract_by>>)

\* ------------------------------------------- elastic supply (SerpTesAdapter)

\* T::GetBaseUnit: the peg of a monitored currency.
GetBaseUnit(currency_id) == 2

\* The Balance type is unsigned and BalanceTop is its largest value.  An
\* operation whose mathematical result leaves 0..BalanceTop either panics
\* (overflow checks on) or wraps (overflow checks off); `wrap` says which
\* build runs.  The result is [panic, out].
BalanceArith(x, wrap) ==
  IF x \in Balance THEN [panic |-> FALSE, out |-> x]
  ELSE IF wrap THEN [panic |-> FALSE, out |-> x % (BalanceTop + 1)]
  ELSE [panic |-> TRUE, out |-> 0]

\* supply_change(currency_id, new_price), every step in the Balance type
supply_change(w, currency_id, new_price, wrap) ==
  LET base_unit  == GetBaseUnit(currency_id)
      supply     == Pallet_total_issuance(w, currency_id)
      fraction   == BalanceArith(new_price * supply, wrap)
      fractioned == fraction.out \div base_unit
      change     == BalanceArith(fractioned - supply, wrap)
  IN IF fraction.panic THEN fraction ELSE change

\* A serp_elast without the arm for a zero price.
serp_elast_no_zero_check(w, currency_id, price, native_currency_id, serpers, wrap) ==
  LET base_unit == GetBaseUnit(currency_id)
      by        == supply_change(w, currency_id, price, wrap)
  IN IF price > base_unit
       THEN IF by.panic THEN PRet("Panic", 0, w)
            ELSE Pallet_expand_supply(w, native_currency_id, currency_id,
                                      by.out, price, serpers)
     ELSE IF price < base_unit
       THEN IF by.panic THEN PRet("Panic", 0, w)
            ELSE Pallet_contract_supply(w, native_currency_id, currency_id,
                                        by.out, price, serpers)
     ELSE PRet("Ok", 0, w)

serp_elast_branches_exchanged(w, currency_id, price, native_currency_id, serpers, wrap) ==
  LET base_unit == GetBaseUnit(currency_id)
      by        == supply_change(w, currency_id, price, wrap)
  IN IF price = 0 THEN PRet("ZeroPrice", 0, w)
     ELSE IF price > base_unit
       THEN IF by.panic THEN PRet("Panic", 0, w)
            ELSE Pallet_contract_supply(w, native_currency_id, currency_id,
                                        by.out, price, serpers)
     ELSE IF price < base_unit
       THEN IF by.panic THEN PRet("Panic", 0, w)
            ELSE Pallet_expand_supply(w, native_currency_id, currency_id,
                                      by.out, price, serpers)
     ELSE PRet("Ok", 0, w)

\* serp_elast(currency_id, price).  The source calls expand_supply and
\* contract_supply without the native currency id and the serpers account
\* that both take: they are inputs of the step here.
serp_elast(w, currency_id, price, native_currency_id, serpers, wrap) ==
  LET base_unit == GetBaseUnit(currency_id)
      by        == supply_change(w, currency_id, price, wrap)
  IN IF price = 0 THEN PRet("ZeroPrice", 0, w)
     ELSE IF price > base_unit
       THEN IF by.panic THEN PRet("Panic", 0, w)
            ELSE Pallet_expand_supply(w, native_currency_id, currency_id,
                                      by.out, price, serpers)
     ELSE IF price < base_unit
       THEN IF by.panic THEN PRet("Panic", 0, w)
            ELSE Pallet_contract_supply(w, native_currency_id, currency_id,
                                        by.out, price, serpers)
     ELSE PRet("Ok", 0, w)

\* T::AdjustmentFrequency: every how many blocks the supply is adjusted.
AdjustmentFrequency == 2

Blocks == 1..MaxBlock

\* An on_block_with_price that adjusts on every block.
on_block_with_price_ungated(w, block, price, currency_id, native_currency_id, serpers, wrap) ==
  serp_elast(w, currency_id, price, native_currency_id, serpers, wrap)

\* on_block_with_price(block, price, currency_id)
on_block_with_price(w, block, price, currency_id, native_currency_id, serpers, wrap) ==
  IF block % AdjustmentFrequency = 0
    THEN serp_elast(w, currency_id, price, native_currency_id, serpers, wrap)
  ELSE PRet("Ok", 0, w)

\* on_serp_initialize(now, sett_price, sett_currency_id, jusd_price,
\* jusd_currency_id): one lane after the other, an Err of a lane is logged
\* and dropped by unwrap_or_else, which does not catch a panic.  After the
\* two lanes the source calls on_block_with_price a third time, as
\* on_block_with_price(now, price): the price it names is bound nowhere and
\* the currency is missing, so both are inputs of the step here, as the
\* missing arguments of serp_elast are.
on_serp_initialize(w, now, sett_price, sett_currency_id, jusd_price, jusd_currency_id, price, currency_id, native_currency_id, serpers, wrap) ==
  LET sett  == on_block_with_price(w, now, sett_price, sett_currency_id,
                                   native_currency_id, serpers, wrap)
      jusd  == on_block_with_price(sett.w, now, jusd_price, jusd_currency_id,
                                   native_currency_id, serpers, wrap)
      third == on_block_with_price(jusd.w, now, price, currency_id,
                                   native_currency_id, serpers, wrap)
  IN IF sett.res = "Panic" \/ jusd.res = "Panic" \/ third.res = "Panic"
       THEN PRet("Panic", 0, w)
     ELSE PRet("Ok", 0, third.w)

\* ------------------------------------------------------------ merge_account
\* impl MergeAccount for Pallet<T>.  with_transaction_result commits the
\* closure's writes when it returns Ok and discards all of them otherwise.

merge_account_no_rollback(w, source, dest) ==
  LET merged     == Backend_merge_account(w.tok, source, dest)
      unreserved == Adapter_unreserve(w.nat, source,
                                      Adapter_reserved_balance(w.nat, source))
      moved      == Adapter_transfer(unreserved.st, source, dest,
                                     Adapter_free_balance(unreserved.st, source))
  IN IF merged.res # "Ok" THEN PRet(merged.res, 0, w)
     ELSE PRet(moved.res, 0, [w EXCEPT !.tok = merged.st, !.nat = moved.st])

merge_account(w, source, dest) ==
  LET merged     == Backend_merge_account(w.tok, source, dest)
      unreserved == Adapter_unreserve(w.nat, source,
                                      Adapter_reserved_balance(w.nat, source))
      moved      == Adapter_transfer(unreserved.st, source, dest,
                                     Adapter_free_balance(unreserved.st, source))
  IN IF merged.res # "Ok" THEN PRet(merged.res, 0, w)
     ELSE IF moved.res # "Ok" THEN PRet(moved.res, 0, w)
     ELSE PRet("Ok", 0, [w EXCEPT !.tok = merged.st, !.nat = moved.st])

\* ------------------------------------------------------- dispatchable calls
\* #[pallet::call]: origin checks belong to the surrounding runtime.

Call_transfer(w, from, to, currency_id, amount) ==
  Pallet_transfer(w, currency_id, from, to, amount)

Call_transfer_native_currency(w, from, to, amount) ==
  ThenDeposit_event(ViaNative(w, Adapter_transfer(w.nat, from, to, amount)),
                    <<"Transferred", GetStp258NativeId, from, to, amount>>)

Call_update_balance(w, who, currency_id, amount) ==
  Pallet_update_balance(w, currency_id, who, amount)

\* ------------------------------------------------------------- the steps

\* The inputs explored.
Amounts == 0..MaxBalance

Deltas == ((0 - MaxBalance)..MaxBalance) \cup {0 - MaxAmount, MaxAmount}

Prices == 0..(2 * GetBaseUnit(GetStp258NativeId))

\* The world the pallet's operations act on.
W == [nat |-> nat, tok |-> tok, events |-> events]

\* The state-changing operations of Ledger Dispatch.
LedgerMutations ==
  {"transfer", "deposit", "withdraw", "slash", "update_balance", "set_lock",
   "extend_lock", "remove_lock", "slash_reserved", "reserve", "unreserve",
   "repatriate_reserved"}

\* The read-only operations of Ledger Dispatch.
LedgerQueries ==
  {"base_unit", "minimum_balance", "total_issuance", "total_balance",
   "free_balance", "ensure_can_withdraw", "can_slash", "can_reserve",
   "reserved_balance"}

LedgerOps == LedgerMutations \cup LedgerQueries

\* A read-only operation: its answer, the world untouched.
Answer(w, call) ==
  CASE call.op = "base_unit" -> Pallet_base_unit(w, call.c)
    [] call.op = "minimum_balance" -> Pallet_minimum_balance(w, call.c)
    [] call.op = "total_issuance" -> Pallet_total_issuance(w, call.c)
    [] call.op = "total_balance" -> Pallet_total_balance(w, call.c, call.who)
    [] call.op = "free_balance" -> Pallet_free_balance(w, call.c, call.who)
    [] call.op = "reserved_balance" -> Pallet_reserved_balance(w, call.c, call.who)
    [] call.op = "can_slash" ->
         Pallet_can_slash(w, call.c, call.who, call.amount)
    [] call.op = "can_reserve" ->
         Pallet_can_reserve(w, call.c, call.who, call.amount)

\* What a call does to world w: [res, val, w].
Exec(w, call) ==
  CASE call.op = "transfer" ->
         Pallet_transfer(w, call.c, call.from, call.to, call.amount)
    [] call.op = "deposit" -> Pallet_deposit(w, call.c, call.who, call.amount)
    [] call.op = "withdraw" -> Pallet_withdraw(w, call.c, call.who, call.amount)
    [] call.op = "slash" -> Pallet_slash(w, call.c, call.who, call.amount)
    [] call.op = "update_balance" ->
         Pallet_update_balance(w, call.c, call.who, call.by_amount)
    [] call.op = "set_lock" ->
         Pallet_set_lock(w, call.lock_id, call.c, call.who, call.amount)
    [] call.op = "extend_lock" ->
         Pallet_extend_lock(w, call.lock_id, call.c, call.who, call.amount)
    [] call.op = "remove_lock" ->
         Pallet_remove_lock(w, call.lock_id, call.c, call.who)
    [] call.op = "slash_reserved" ->
         Pallet_slash_reserved(w, call.c, call.who, call.amount)
    [] call.op = "reserve" -> Pallet_reserve(w, call.c, call.who, call.amount)
    [] call.op = "unreserve" -> Pallet_unreserve(w, call.c, call.who, call.amount)
    [] call.op = "repatriate_reserved" ->
         Pallet_repatriate_reserved(w, call.c, call.from, call.to, call.amount,
                                    call.status)
    [] call.op = "ensure_can_withdraw" ->
         PRet(Pallet_ensure_can_withdraw(w, call.c, call.who, call.amount), 0, w)
    [] call.op \in LedgerQueries \ {"ensure_can_withdraw"} ->
         PRet("Ok", Answer(w, call), w)
    [] call.op = "expand_supply" ->
         Pallet_expand_supply(w, call.native_id, call.c, call.amount,
                              call.price, call.serpers)
    [] call.op = "contract_supply" ->
         Pallet_contract_supply(w, call.native_id, call.c, call.amount,
                                call.price, call.serpers)
    [] call.op = "serp_elast" ->
         serp_elast(w, call.c, call.price, call.native_id, call.serpers, call.wrap)
    [] call.op = "supply_change" ->
         LET by == supply_change(w, call.c, call.price, call.wrap)
         IN PRet(IF by.panic THEN "Panic" ELSE "Ok", by.out, w)
    [] call.op = "on_block_with_price" ->
         on_block_with_price(w, call.block, call.price, call.c, call.native_id,
                             call.serpers, call.wrap)
    [] call.op = "on_serp_initialize" ->
         on_serp_initialize(w, call.now, call.sett_price, call.sett_currency_id,
                            call.jusd_price, call.jusd_currency_id,
                            call.price, call.c,
                            call.native_id, call.serpers, call.wrap)
    [] call.op = "merge_account" -> merge_account(w, call.from, call.to)
    [] call.op = "call_transfer" ->
         Call_transfer(w, call.from, call.to, call.c, call.amount)
    [] call.op = "transfer_native_currency" ->
         Call_transfer_native_currency(w, call.from, call.to, call.amount)
    [] call.op = "call_update_balance" ->
         Call_update_balance(w, call.who, call.c, call.by_amount)

\* Only worlds whose issuances stay within the explored bound are visited.
InBounds(w) ==
  /\ w.nat.issuance <= MaxBalance
  /\ \A c \in CurrencyIds : w.tok[c].issuance <= MaxBalance

\* One step: the call runs to completion on the current world.
Run(call) ==
  LET r == Exec(W, call)
  IN /\ steps < MaxSteps
     /\ InBounds(r.w)
     /\ nat' = r.w.nat
     /\ tok' = r.w.tok
     /\ events' = r.w.events
     /\ last' = [res |-> r.res, val |-> r.val, call |-> call]
     /\ steps' = steps + 1
     /\ UNCHANGED serpNativeId

\* A call of a ledger, settlement or merge operation.
Do(call) == Run(call) /\ UNCHANGED ticks

\* A run of a per-block entry point.
Tick(call) == ticks < MaxTicks /\ Run(call) /\ ticks' = ticks + 1

Transfer ==
  \E c \in CurrencyIds, from \in Accounts, to \in Accounts, amount \in Amounts :
    Do([amount |-> amount, from |-> from, to |-> to, c |-> c, op |-> "transfer"])

Deposit ==
  \E c \in CurrencyIds, who \in Accounts, amount \in Amounts :
    Do([who |-> who, amount |-> amount, c |-> c, op |-> "deposit"])

Withdraw ==
  \E c \in CurrencyIds, who \in Accounts, amount \in Amounts :
    Do([who |-> who, amount |-> amount, c |-> c, op |-> "withdraw"])

Slash ==
  \E c \in CurrencyIds, who \in Accounts, amount \in Amounts :
    Do([who |-> who, amount |-> amount, c |-> c, op |-> "slash"])

UpdateBalance ==
  \E c \in CurrencyIds, who \in Accounts, by_amount \in Deltas :
    Do([who |-> who, by_amount |-> by_amount, c |-> c, op |-> "update_balance"])

SetLock ==
  \E l \in LockIds, c \in CurrencyIds, who \in Accounts, amount \in Amounts :
    Do([who |-> who, amount |-> amount, lock_id |-> l, c |-> c, op |-> "set_lock"])

ExtendLock ==
  \E l \in LockIds, c \in CurrencyIds, who \in Accounts, amount \in Amounts :
    Do([who |-> who, amount |-> amount, lock_id |-> l, c |-> c, op |-> "extend_lock"])

RemoveLock ==
  \E l \in LockIds, c \in CurrencyIds, who \in Accounts :
    Do([who |-> who, lock_id |-> l, c |-> c, op |-> "remove_lock"])

SlashReserved ==
  \E c \in CurrencyIds, who \in Accounts, amount \in Amounts :
    Do([who |-> who, amount |-> amount, c |-> c, op |-> "slash_reserved"])

Reserve ==
  \E c \in CurrencyIds, who \in Accounts, amount \in Amounts :
    Do([who |-> who, amount |-> amount, c |-> c, op |-> "reserve"])

Unreserve ==
  \E c \in CurrencyIds, who \in Accounts, amount \in Amounts :
    Do([who |-> who, amount |-> amount, c |-> c, op |-> "unreserve"])

RepatriateReserved ==
  \E c \in CurrencyIds, from \in Accounts, to \in Accounts, amount \in Amounts,
     status \in BalanceStatus :
    Do([amount |-> amount, from |-> from, to |-> to, status |-> status, c |-> c, op |-> "repatriate_reserved"])

QueryCurrency ==
  \E op \in {"base_unit", "minimum_balance", "total_issuance"},
     c \in CurrencyIds :
    Do([c |-> c, op |-> op])

QueryAccount ==
  \E op \in {"total_balance", "free_balance", "reserved_balance"},
     c \in CurrencyIds, who \in Accounts :
    Do([who |-> who, c |-> c, op |-> op])

QueryAmount ==
  \E op \in {"ensure_can_withdraw", "can_slash", "can_reserve"},
     c \in CurrencyIds, who \in Accounts, amount \in Amounts :
    Do([who |-> who, amount |-> amount, c |-> c, op |-> op])

ExpandSupply ==
  \E native_id \in CurrencyIds, c \in CurrencyIds, amount \in Amounts,
     serpers \in Accounts :
    Do([amount |-> amount, c |-> c, native_id |-> native_id, serpers |-> serpers, price |-> GetBaseUnit(c), op |-> "expand_supply"])

ContractSupply ==
  \E native_id \in CurrencyIds, c \in CurrencyIds, amount \in Amounts,
     serpers \in Accounts :
    Do([amount |-> amount, c |-> c, native_id |-> native_id, serpers |-> serpers, price |-> GetBaseUnit(c), op |-> "contract_supply"])

SerpElast ==
  \E c \in CurrencyIds, price \in Prices, native_id \in CurrencyIds,
     serpers \in Accounts, wrap \in BOOLEAN :
    Do([c |-> c, native_id |-> native_id, serpers |-> serpers, wrap |-> wrap, price |-> price, op |-> "serp_elast"])

SupplyChange ==
  \E c \in CurrencyIds, price \in Prices, wrap \in BOOLEAN :
    Do([c |-> c, wrap |-> wrap, price |-> price, op |-> "supply_change"])

OnBlockWithPrice ==
  \E block \in Blocks, c \in CurrencyIds, price \in Prices,
     native_id \in CurrencyIds, serpers \in Accounts, wrap \in BOOLEAN :
    Tick([c |-> c, native_id |-> native_id, serpers |-> serpers, wrap |-> wrap, price |-> price, block |-> block, op |-> "on_block_with_price"])

OnSerpInitialize ==
  /\ ticks < MaxTicks /\ steps < MaxSteps
  /\ \E now \in Blocks, sett_price \in Prices, sett_currency_id \in CurrencyIds,
     jusd_price \in Prices, jusd_currency_id \in CurrencyIds,
     price \in Prices, c \in CurrencyIds,
     native_id \in CurrencyIds, serpers \in Accounts, wrap \in BOOLEAN :
    Tick([c |-> c, native_id |-> native_id, serpers |-> serpers, wrap |-> wrap, price |-> price, now |-> now, sett_price |-> sett_price, sett_currency_id |-> sett_currency_id, jusd_price |-> jusd_price, jusd_currency_id |-> jusd_currency_id, op |-> "on_serp_initialize"])

MergeAccount ==
  \E from \in Accounts, to \in Accounts :
    Do([from |-> from, to |-> to, op |-> "merge_account"])

CallTransfer ==
  \E c \in CurrencyIds, from \in Accounts, to \in Accounts, amount \in Amounts :
    Do([amount |-> amount, from |-> from, to |-> to, c |-> c, op |-> "call_transfer"])

CallTransferNativeCurrency ==
  \E from \in Accounts, to \in Accounts, amount \in Amounts :
    Do([amount |-> amount, from |-> from, to |-> to, op |-> "transfer_native_currency"])

CallUpdateBalance ==
  \E c \in CurrencyIds, who \in Accounts, by_amount \in Deltas :
    Do([who |-> who, by_amount |-> by_amount, c |-> c, op |-> "call_update_balance"])

\* Genesis: the endowment both ledgers' genesis configurations give alice.
Endowments ==
  {f \in [Accounts -> 0..MaxBalance] : f["alice"] >= 1 /\ f["bob"] = 0}

Endowed(f) ==
  [EmptyStore EXCEPT !.free = f, !.issuance = f["alice"] + f["bob"]]

Init ==
  /\ \E f \in Endowments :
       /\ nat = Endowed(f)
       /\ tok = [c \in CurrencyIds |->
                   IF c = GetStp258NativeId THEN EmptyStore ELSE Endowed(f)]
  /\ events = <<>>
  /\ last = [res |-> "Ok", val |-> 0, call |-> [op |-> "genesis"]]
  /\ steps = 0
  /\ serpNativeId \in CurrencyIds
  /\ ticks = 0

Next ==
  \/ Transfer
  \/ Deposit
  \/ Withdraw
  \/ Slash
  \/ UpdateBalance
  \/ SetLock
  \/ ExtendLock
  \/ RemoveLock
  \/ SlashReserved
  \/ Reserve
  \/ Unreserve
  \/ RepatriateReserved
  \/ QueryCurrency
  \/ QueryAccount
  \/ QueryAmount
  \/ ExpandSupply
  \/ ContractSupply
  \/ SerpElast
  \/ MergeAccount
  \/ CallTransfer
  \/ CallTransferNativeCurrency
  \/ CallUpdateBalance

Spec == Init /\ [][Next]_vars

\* The per-block entry points, between deposits and withdrawals that set the
\* supply they find.
TickNext ==
  \/ Deposit
  \/ Withdraw
  \/ SupplyChange
  \/ OnBlockWithPrice
  \/ OnSerpInitialize

TickSpec == Init /\ [][TickNext]_vars

\* ============================================================== the claims

\* What an observer reads off a world, store by store.
FreeOf(w, c, who) ==
  IF c = GetStp258NativeId THEN w.nat.free[who] ELSE w.tok[c].free[who]

ReservedOf(w, c, who) ==
  IF c = GetStp258NativeId THEN w.nat.reserved[who] ELSE w.tok[c].reserved[who]

LocksOf(w, c, who) ==
  IF c = GetStp258NativeId THEN w.nat.locks[who] ELSE w.tok[c].locks[who]

IssuanceOf(w, c) ==
  IF c = GetStp258NativeId THEN w.nat.issuance ELSE w.tok[c].issuance

NoLocks == [l \in LockIds |-> 0]

\* The latest step left both ledgers and the event log as they were.
NothingChanged == nat' = nat /\ tok' = tok /\ events' = events

TransferOps == {"transfer", "call_transfer"}

UpdateBalanceOps == {"update_balance", "call_update_balance"}

\* C1: a successful transfer(c, A, B, n) with n > 0 and A # B takes exactly n
\* from A's free balance of c, adds exactly n to B's, leaves the total
\* issuance of c as it was and appends exactly one Transferred(c, A, B, n).
C1_TransferMovesAmount ==
  [][(/\ last'.call.op \in TransferOps
      /\ last'.res = "Ok"
      /\ last'.call.amount > 0
      /\ last'.call.from # last'.call.to)
     => LET c == last'.call.c
            A == last'.call.from
            B == last'.call.to
            n == last'.call.amount
        IN /\ FreeOf(W', c, A) = FreeOf(W, c, A) - n
           /\ FreeOf(W', c, B) = FreeOf(W, c, B) + n
           /\ IssuanceOf(W', c) = IssuanceOf(W, c)
           /\ events' = Append(events, <<"Transferred", c, A, B, n>>)]_vars

\* Two transfers succeeded, the first of the native currency and the second
\* of another one.
C1_Witness ==
  /\ Len(events) = 2
  /\ events[1][1] = "Transferred" /\ events[1][2] = GetStp258NativeId
  /\ events[2][1] = "Transferred" /\ events[2][2] # GetStp258NativeId
  /\ last.call.op = "transfer" /\ last.res = "Ok"
  /\ last.call.amount > 0 /\ last.call.from # last.call.to

\* C2: transfer with amount = 0 or from = to succeeds, whatever the balance
\* of from, changes no balance, lock, reserve or issuance and emits no event.
C2_TransferNoOp ==
  [][(/\ last'.call.op \in TransferOps
      /\ (last'.call.amount = 0 \/ last'.call.from = last'.call.to))
     => (last'.res = "Ok" /\ NothingChanged)]_vars

\* A transfer to oneself of more than one holds has just returned Ok.
C2_Witness ==
  /\ last.call.op = "transfer"
  /\ last.call.from = last.call.to
  /\ last.call.amount > FreeOf(W, last.call.c, last.call.from)
  /\ last.res = "Ok"

\* C3: deposit and withdraw with amount = 0 succeed, change nothing and emit
\* no event; with amount > 0 a successful call changes who's free balance in
\* the routed ledger by amount, leaves the other ledger alone and appends
\* exactly one Deposited, respectively Withdrawn, event.
C3_DepositWithdraw ==
  [][(last'.call.op \in {"deposit", "withdraw"})
     => LET c   == last'.call.c
            who == last'.call.who
            n   == last'.call.amount
            dep == last'.call.op = "deposit"
        IN /\ n = 0 => (last'.res = "Ok" /\ NothingChanged)
           /\ (n > 0 /\ last'.res = "Ok") =>
                /\ FreeOf(W', c, who) =
                     FreeOf(W, c, who) + (IF dep THEN n ELSE 0 - n)
                /\ (c = GetStp258NativeId) => tok' = tok
                /\ (c # GetStp258NativeId) => nat' = nat
                /\ events' =
                     Append(events,
                            <<IF dep THEN "Deposited" ELSE "Withdrawn", c, who, n>>)]_vars

\* A deposit and then a withdrawal, both of a positive amount, succeeded.
C3_Witness ==
  /\ Len(events) = 2
  /\ events[1][1] = "Deposited"
  /\ events[2][1] = "Withdrawn"
  /\ last.call.op = "withdraw" /\ last.call.amount > 0 /\ last.res = "Ok"

\* C4 as claimed: update_balance with a delta of 0 leaves the balances, the
\* total issuance and the event log as they were.
C4_UpdateBalanceZeroSilent ==
  [][(last'.call.op \in UpdateBalanceOps /\ last'.call.by_amount = 0)
     => NothingChanged]_vars

\* C5: a Ledger Dispatch operation on the native id leaves the backend's
\* ledgers untouched and its outcome does not depend on them; on any other id
\* it leaves the native ledger untouched and its outcome does not depend on
\* it.  The same holds for every operation.
C5_Routing ==
  [][(last'.call.op \in LedgerOps \cup TransferOps \cup UpdateBalanceOps)
     => LET call     == last'.call
            blindTok == [W EXCEPT !.tok = [c \in CurrencyIds |-> EmptyStore]]
            blindNat == [W EXCEPT !.nat = EmptyStore]
        IN IF call.c = GetStp258NativeId
             THEN /\ tok' = tok
                  /\ Exec(blindTok, call).res = last'.res
                  /\ Exec(blindTok, call).val = last'.val
                  /\ Exec(blindTok, call).w.nat = nat'
                  /\ Exec(blindTok, call).w.events = events'
           ELSE /\ nat' = nat
                /\ Exec(blindNat, call).res = last'.res
                /\ Exec(blindNat, call).val = last'.val
                /\ Exec(blindNat, call).w.tok = tok'
                /\ Exec(blindNat, call).w.events = events']_vars

\* Both ledgers hold balances, and a reserve on the native id has just moved
\* a native free balance into the native reserve.
C5_Witness ==
  /\ last.call.op = "reserve" /\ last.call.c = GetStp258NativeId
  /\ last.call.amount > 0 /\ last.res = "Ok"
  /\ nat.reserved[last.call.who] > 0
  /\ \E c \in CurrencyIds, a \in Accounts : tok[c].free[a] > 0

\* Some currency's total issuance differs after the step, in either ledger.
IssuanceChanged ==
  \/ nat'.issuance # nat.issuance
  \/ \E c \in CurrencyIds : tok'[c].issuance # tok[c].issuance

\* C6 as claimed: the total issuance changes only in a deposit, a withdraw or
\* a Settlement expand_supply / contract_supply (serp_elast reaches those).
C6_IssuanceOnlyDepositWithdrawSettlement ==
  [][IssuanceChanged
     => last'.call.op \in {"deposit", "withdraw", "expand_supply",
                           "contract_supply", "serp_elast"}]_vars

\* C6 as amended: the total issuance changes only in a deposit, a withdraw, an
\* update_balance, a slash, a slash_reserved or a Settlement expand_supply /
\* contract_supply; transfer, the lock and reserve operations, unreserve,
\* repatriate_reserved, merge_account and the queries leave it unchanged.
C6_IssuanceChangesOnlyByMintOrBurn ==
  [][IssuanceChanged
     => last'.call.op \in {"deposit", "withdraw", "expand_supply",
                           "contract_supply", "serp_elast", "slash",
                           "slash_reserved"} \cup UpdateBalanceOps]_vars

\* A reserved balance has just been repatriated in full to another account.
C6_Witness ==
  /\ last.call.op = "repatriate_reserved"
  /\ last.call.amount > 0 /\ last.call.from # last.call.to
  /\ last.res = "Ok" /\ last.val = 0

\* C7: a merge_account that returns an error leaves every free and reserved
\* balance, in every currency and both ledgers, exactly as before the call.
C7_MergeAllOrNothing ==
  [][(last'.call.op = "merge_account" /\ last'.res # "Ok")
     => NothingChanged]_vars

\* merge_account has just failed in its last step, the native transfer, after
\* a backend merge that by itself succeeds and moves a balance.
C7_Witness ==
  /\ last.call.op = "merge_account"
  /\ last.res = "LiquidityRestrictions"
  /\ Backend_merge_account(tok, last.call.from, last.call.to).res = "Ok"
  /\ \E c \in CurrencyIds : tok[c].free[last.call.from] > 0
  /\ nat.free[last.call.from] > 0

\* What an account holds of a currency, free and reserved.
HoldingsOf(w, c, who) == FreeOf(w, c, who) + ReservedOf(w, c, who)

\* C8 as claimed: after a successful merge_account(source, dest) with
\* source # dest, source's free, reserved and locked balances are zero in
\* every currency and dest holds, per currency, what the two held before.
C8_MergeEmptiesSourceAndLocks ==
  [][(/\ last'.call.op = "merge_account"
      /\ last'.res = "Ok"
      /\ last'.call.from # last'.call.to)
     => \A c \in CurrencyIds :
          /\ FreeOf(W', c, last'.call.from) = 0
          /\ ReservedOf(W', c, last'.call.from) = 0
          /\ LocksOf(W', c, last'.call.from) = NoLocks
          /\ HoldingsOf(W', c, last'.call.to) =
               HoldingsOf(W, c, last'.call.from)
               + HoldingsOf(W, c, last'.call.to)]_vars

\* C9: update_balance on the native currency with a delta whose magnitude is
\* not a Balance fails with AmountIntoBalanceFailed, leaves the balance and
\* the total issuance as they were and emits no BalanceUpdated.
C9_UpdateBalanceTooWide ==
  [][(/\ last'.call.op \in UpdateBalanceOps
      /\ last'.call.c = GetStp258NativeId
      /\ Abs(last'.call.by_amount) > BalanceTop)
     => (last'.res = "AmountIntoBalanceFailed" /\ NothingChanged)]_vars

\* A native update_balance by a delta wider than Balance has just failed,
\* on an account that holds a balance.
C9_Witness ==
  /\ last.call.op = "update_balance"
  /\ last.call.c = GetStp258NativeId
  /\ Abs(last.call.by_amount) > BalanceTop
  /\ last.res = "AmountIntoBalanceFailed"
  /\ nat.free[last.call.who] > 0

\* C10: serp_elast with price = 0 fails with ZeroPrice for every currency and
\* supply; no settlement takes place: the ledgers, the total issuance and the
\* event log are as before.
C10_ZeroPrice ==
  [][(last'.call.op = "serp_elast" /\ last'.call.price = 0)
     => (last'.res = "ZeroPrice" /\ NothingChanged)]_vars

\* serp_elast has just refused a zero price for a currency in circulation.
C10_Witness ==
  /\ last.call.op = "serp_elast" /\ last.call.price = 0
  /\ last.res = "ZeroPrice"
  /\ IssuanceOf(W, last.call.c) > 0

\* The block number a per-block entry point was run with.
BlockOf(call) ==
  IF call.op = "on_serp_initialize" THEN call.now ELSE call.block

TickOps == {"on_block_with_price", "on_serp_initialize"}

AdjustmentTick(call) == BlockOf(call) % AdjustmentFrequency = 0

\* C11: on a block that is no multiple of the adjustment frequency the
\* per-block entry points succeed and change nothing, whatever the prices
\* quoted, a zero price included: no settlement event, no issuance change.
C11_OffTickNoChange ==
  [][(last'.call.op \in TickOps /\ ~AdjustmentTick(last'.call))
     => (last'.res = "Ok" /\ NothingChanged)]_vars

\* on_serp_initialize has just run on an odd block with a zero price in one
\* lane and twice the peg in the other, for currencies in circulation.
C11_Witness ==
  /\ last.call.op = "on_serp_initialize"
  /\ ~AdjustmentTick(last.call)
  /\ last.call.sett_price = 0
  /\ last.call.jusd_price = 2 * GetBaseUnit(last.call.jusd_currency_id)
  /\ last.call.sett_currency_id # last.call.jusd_currency_id
  /\ \A c \in CurrencyIds : IssuanceOf(W, c) > 0
  /\ last.res = "Ok"

\* floor(price * supply / baseUnit) - supply, in the integers.
SupplyChangeExact(w, c, price) ==
  ((price * IssuanceOf(w, c)) \div GetBaseUnit(c)) - IssuanceOf(w, c)

\* C12 as claimed: supply_change(c, price) returns
\* floor(price * supply / baseUnit) - supply for every price and supply; at
\* twice the base unit it returns the supply and at the base unit 0.
C12_SupplyChangeFormula ==
  [][(last'.call.op = "supply_change")
     => LET c      == last'.call.c
            price  == last'.call.price
            supply == IssuanceOf(W, c)
        IN /\ last'.res = "Ok"
           /\ last'.val = SupplyChangeExact(W, c, price)
           /\ (price = 2 * GetBaseUnit(c)) => last'.val = supply
           /\ (price = GetBaseUnit(c)) => last'.val = 0]_vars

\* C13 as claimed: on an adjustment tick with the price of a monitored
\* currency above its base unit, expand_supply runs with
\* expandBy = floor(price * supply / baseUnit) - supply and one
\* SerpedUpSupply event for that currency with that amount is emitted, the
\* native id included.
C13_ExpandOnTick ==
  [][(/\ last'.call.op = "on_block_with_price"
      /\ AdjustmentTick(last'.call)
      /\ last'.call.price > GetBaseUnit(last'.call.c))
     => /\ last'.res = "Ok"
        /\ events' =
             Append(events,
                    <<"SerpedUpSupply", last'.call.c,
                      SupplyChangeExact(W, last'.call.c, last'.call.price)>>)]_vars

\* C14 as claimed: on an adjustment tick with 0 < price < baseUnit,
\* contract_supply runs with contractBy = supply_change(price, supply), and
\* computing contractBy never leaves the unsigned Balance type, whatever the
\* supply.
C14_ContractByIsBalance ==
  [][(/\ last'.call.op = "on_block_with_price"
      /\ AdjustmentTick(last'.call)
      /\ last'.call.price > 0
      /\ last'.call.price < GetBaseUnit(last'.call.c))
     => LET by == supply_change(W, last'.call.c, last'.call.price,
                                last'.call.wrap)
        IN /\ SupplyChangeExact(W, last'.call.c, last'.call.price) \in Balance
           /\ ~by.panic
           /\ by.out = SupplyChangeExact(W, last'.call.c, last'.call.price)
           /\ last'.res # "Panic"]_vars

\* C15 as claimed: in supply_change the product price * supply is formed
\* without overflow, for every price and supply that are Balances, and the
\* quotient by the base unit is rounded toward zero.
C15_ProductNeverOverflows ==
  [][(last'.call.op = "supply_change")
     => LET price    == last'.call.price
            supply   == IssuanceOf(W, last'.call.c)
            fraction == BalanceArith(price * supply, last'.call.wrap)
        IN /\ price \in Balance /\ supply \in Balance
           /\ ~fraction.panic
           /\ fraction.out = price * supply
           /\ (price >= GetBaseUnit(last'.call.c)) =>
                /\ last'.res = "Ok"
                /\ last'.val + supply =
                     (price * supply) \div GetBaseUnit(last'.call.c)]_vars

\* The first lane of on_serp_initialize, adjusted by itself on world w.
SettLane(w, call) ==
  serp_elast(w, call.sett_currency_id, call.sett_price, call.native_id,
             call.serpers, call.wrap)

\* The second lane, adjusted by itself on world w.
JusdLane(w, call) ==
  serp_elast(w, call.jusd_currency_id, call.jusd_price, call.native_id,
             call.serpers, call.wrap)

\* The call that follows the two lanes, adjusted by itself on world w.
ThirdCall(w, call) ==
  serp_elast(w, call.c, call.price, call.native_id, call.serpers, call.wrap)

\* The world the two lanes leave, one after the other, starting from w.
AfterBothLanes(w, call) == JusdLane(SettLane(w, call).w, call).w

\* C16 as claimed: on an adjustment tick, when the adjustment of one lane
\* fails, whichever it is, the other lane is still adjusted on the world the
\* first lane left, the rest of the tick runs on what the lanes left, and
\* on_serp_initialize itself does not fail.
C16_LaneFailureIsolated ==
  [][(/\ last'.call.op = "on_serp_initialize"
      /\ AdjustmentTick(last'.call)
      /\ \/ SettLane(W, last'.call).res # "Ok"
         \/ JusdLane(SettLane(W, last'.call).w, last'.call).res # "Ok")
     => /\ last'.res = "Ok"
        /\ W' = ThirdCall(AfterBothLanes(W, last'.call), last'.call).w]_vars

SettlementOps == {"expand_supply", "contract_supply"}

\* C17: expand_supply and contract_supply with an amount of 0 or with
\* stable_currency_id = native_currency_id return Ok and change nothing: no
\* backend mint or burn, no issuance change, no event.  A backend ledger
\* changes only when native_currency_id is GetSerpNativeId, and the native
\* ledger never does.
C17_SettlementNoOps ==
  [][(last'.call.op \in SettlementOps)
     => /\ (last'.call.amount = 0 \/ last'.call.c = last'.call.native_id)
             => (last'.res = "Ok" /\ NothingChanged)
        /\ (tok' # tok) => last'.call.native_id = GetSerpNativeId
        /\ nat' = nat]_vars

\* contract_supply has just been asked to burn more than the serpers hold of
\* a currency that is its own native_currency_id, the configured one.
C17_Witness ==
  /\ last.call.op = "contract_supply"
  /\ last.call.c = last.call.native_id
  /\ last.call.native_id = GetSerpNativeId
  /\ last.call.c # GetStp258NativeId
  /\ last.call.amount > FreeOf(W, last.call.c, last.call.serpers)
  /\ last.res = "Ok"
  /\ events = <<>>

\* C18: expand_supply with expand_by > 0 and stable_currency_id #
\* native_currency_id that succeeds appends exactly one
\* SerpedUpSupply(stable_currency_id, expand_by), also when native_currency_id
\* is not GetSerpNativeId and nothing was minted; contract_supply likewise
\* with SerpedDownSupply.  When the backend fails, the error is returned,
\* nothing changes and no event is appended.
C18_SettlementEvent ==
  [][(/\ last'.call.op \in SettlementOps
      /\ last'.call.amount > 0
      /\ last'.call.c # last'.call.native_id)
     => /\ (last'.res = "Ok") =>
             events' =
               Append(events,
                      <<IF last'.call.op = "expand_supply"
                          THEN "SerpedUpSupply" ELSE "SerpedDownSupply",
                        last'.call.c, last'.call.amount>>)
        /\ (last'.res # "Ok") => NothingChanged
        /\ (last'.call.native_id # GetSerpNativeId) =>
             (last'.res = "Ok" /\ nat' = nat /\ tok' = tok)]_vars

\* expand_supply has just reported an expansion that the id guard kept from
\* being minted.
C18_Witness ==
  /\ last.call.op = "expand_supply"
  /\ last.call.amount > 0
  /\ last.call.c # last.call.native_id
  /\ last.call.native_id # GetSerpNativeId
  /\ last.res = "Ok"
  /\ steps = 1
  /\ events = <<<<"SerpedUpSupply", last.call.c, last.call.amount>>>>
  /\ IssuanceOf(W, last.call.c) < last.call.amount

\* C19: the Asset Adapter's ensure_can_withdraw(who, amount) fails with
\* BalanceTooLow whenever amount exceeds who's free balance; when it does
\* not, the answer is the native primitive's own, never BalanceTooLow; and
\* it changes no state in either case.
C19_EnsureCanWithdraw ==
  [][(/\ last'.call.op = "ensure_can_withdraw"
      /\ last'.call.c = GetStp258NativeId)
     => LET who    == last'.call.who
            amount == last'.call.amount
        IN /\ (amount > nat.free[who]) => last'.res = "BalanceTooLow"
           /\ (amount <= nat.free[who]) =>
                /\ last'.res # "BalanceTooLow"
                /\ last'.res = StoreEnsureCanWithdraw(nat, who, amount,
                                                      nat.free[who] - amount)
           /\ NothingChanged]_vars

\* The adapter has just let an amount within the free balance through to the
\* native primitive, which refused it for a lock.
C19_Witness ==
  /\ last.call.op = "ensure_can_withdraw"
  /\ last.call.c = GetStp258NativeId
  /\ last.call.amount > 0
  /\ last.call.amount <= nat.free[last.call.who]
  /\ last.res = "LiquidityRestrictions"

\* C20 as claimed: the call transfer_native_currency(dest, amount) acts on
\* the native ledger only, and with amount = 0 or dest the caller it changes
\* no balance, no issuance and emits no Transferred event.
C20_TransferNativeNoOp ==
  [][(last'.call.op = "transfer_native_currency")
     => /\ tok' = tok
        /\ (last'.call.amount = 0 \/ last'.call.from = last'.call.to)
             => NothingChanged]_vars

\* The operations of the Ledger Dispatch that announce themselves in the log.
EventedOps ==
  {"deposit", "withdraw", "transfer_native_currency"} \cup TransferOps
    \cup UpdateBalanceOps

\* What the routed path, the native Adapter or the backend, answers by itself
\* to a transfer, deposit, withdraw or update_balance.
RoutedResult(w, call) ==
  LET native == call.op = "transfer_native_currency" \/ call.c = GetStp258NativeId
  IN CASE call.op \in TransferOps \cup {"transfer_native_currency"} ->
            IF native
              THEN Adapter_transfer(w.nat, call.from, call.to, call.amount).res
            ELSE Backend_transfer(w.tok, call.c, call.from, call.to,
                                  call.amount).res
       [] call.op = "deposit" ->
            IF native THEN Adapter_deposit(w.nat, call.who, call.amount).res
            ELSE Backend_deposit(w.tok, call.c, call.who, call.amount).res
       [] call.op = "withdraw" ->
            IF native THEN Adapter_withdraw(w.nat, call.who, call.amount).res
            ELSE Backend_withdraw(w.tok, call.c, call.who, call.amount).res
       [] call.op \in UpdateBalanceOps ->
            IF native
              THEN Adapter_update_balance(w.nat, call.who, call.by_amount).res
            ELSE Backend_update_balance(w.tok, call.c, call.who,
                                        call.by_amount).res

\* C21: a transfer, deposit, withdraw or update_balance that fails returns
\* the error of its routed path as it is, changes no balance, no issuance and
\* no other part of either ledger, and emits no event; every step that
\* appends a Transferred, Deposited, Withdrawn or BalanceUpdated event is an
\* operation that returned Ok and appends exactly that one event.
C21_FailureChangesNothing ==
  [][(last'.call.op \in EventedOps)
     => /\ last'.res # "Ok" =>
             /\ last'.res = RoutedResult(W, last'.call)
             /\ NothingChanged
        /\ events' # events =>
             /\ last'.res = "Ok"
             /\ Len(events') = Len(events) + 1
             /\ SubSeq(events', 1, Len(events)) = events
             /\ events'[Len(events')][1] \in
                  {"Transferred", "Deposited", "Withdrawn", "BalanceUpdated"}]_vars

\* After a deposit that succeeded and is in the log, a withdrawal of more
\* than the account holds has just been refused.
C21_Witness ==
  /\ Len(events) = 1 /\ events[1][1] = "Deposited"
  /\ last.call.op = "withdraw" /\ last.call.amount > 0
  /\ last.call.amount > FreeOf(W, last.call.c, last.call.who)
  /\ last.res # "Ok"

C22_WitnessExpand ==
  /\ last.call.op = "on_block_with_price"
  /\ AdjustmentTick(last.call)
  /\ last.call.price > GetBaseUnit(last.call.c)
  /\ last.res = "Ok"
  /\ Len(events) > 0
  /\ events[Len(events)][1] = "SerpedUpSupply"
  /\ tok[last.call.c].issuance = MaxBalance

\* How many events the step appended to the log about currency c.
AppendedFor(c) ==
  Cardinality({i \in (Len(events) + 1)..Len(events') : events'[i][2] = c})

\* C23 as claimed: on an adjustment tick on_serp_initialize evaluates its two
\* lanes, each once, and nothing else: what the tick leaves is what the sett
\* lane and then the jusd lane leave, and no currency is the subject of more
\* than one settlement event of the tick.
C23_ExactlyTwoLanes ==
  [][(/\ last'.call.op = "on_serp_initialize"
      /\ AdjustmentTick(last'.call)
      /\ last'.res = "Ok")
     => /\ W' = AfterBothLanes(W, last'.call)
        /\ \A c \in CurrencyIds : AppendedFor(c) <= 1]_vars

\* C24: base_unit(c) of the Ledger Dispatch answers, for c the configured
\* native id, the native asset's minimum_balance, so that base_unit(native)
\* equals minimum_balance(native) in the state asked and in the state after,
\* and for every other id the backend's base_unit(c); it only reads.
C24_BaseUnitRouting ==
  [][(last'.call.op = "base_unit")
     => LET c == last'.call.c
        IN /\ last'.res = "Ok"
           /\ NothingChanged
           /\ c = GetStp258NativeId =>
                /\ last'.val = Adapter_minimum_balance
                /\ last'.val = Pallet_minimum_balance(W, GetStp258NativeId)
                /\ Pallet_base_unit(W', GetStp258NativeId) =
                     Pallet_minimum_balance(W', GetStp258NativeId)
           /\ c # GetStp258NativeId => last'.val = Backend_base_unit(c)]_vars

\* base_unit has just been asked for the native id, after a step that
\* changed the ledgers, and answered the native minimum balance, which is
\* not what the backend would have answered for that id.
C24_Witness ==
  /\ last.call.op = "base_unit"
  /\ last.call.c = GetStp258NativeId
  /\ last.res = "Ok"
  /\ last.val = MinimumBalance
  /\ last.val # Backend_base_unit(last.call.c)
  /\ steps = 2
  /\ Len(events) = 1

====
